---- MODULE Spec2Model ----
(***************************************************************************)
(* Model of src/nautilus/kpi_calculator.rs: classification of accounting   *)
(* documents, the per-type KPI deltas, the cumulative aggregation and the  *)
(* signed 144-byte attestation.                                            *)
(*                                                                         *)
(* Numbers are modelled at their width.  An f64 is an IEEE-754 binary64    *)
(* value (sign, 53-bit integer significand, exponent; infinities; NaN)     *)
(* with round-to-nearest-even arithmetic, and a u64 is a natural number    *)
(* below 2^64.  Both exceed the integers of the model checker, so          *)
(* significands and u64 values are little-endian sequences of 15-bit       *)
(* limbs without trailing zero limbs (the empty sequence is zero).         *)
(***************************************************************************)
EXTENDS Integers, Sequences, FiniteSets, TLC

(***************************************************************************)
(* Natural numbers of arbitrary size.                                      *)
(***************************************************************************)
Limb == 32768
LimbBits == 15

Max(a, b) == IF a >= b THEN a ELSE b
Min(a, b) == IF a <= b THEN a ELSE b

RECURSIVE BTrim(_)
BTrim(a) ==
    IF a = <<>> THEN a
    ELSE IF a[Len(a)] = 0 THEN BTrim(SubSeq(a, 1, Len(a) - 1)) ELSE a

RECURSIVE BigOf(_)
BigOf(n) == IF n = 0 THEN <<>> ELSE <<n % Limb>> \o BigOf(n \div Limb)

BLimb(a, i) == IF i >= 1 /\ i <= Len(a) THEN a[i] ELSE 0

RECURSIVE BAddC(_, _, _, _)
BAddC(a, b, i, c) ==
    IF i > Len(a) /\ i > Len(b)
    THEN IF c = 0 THEN <<>> ELSE <<c>>
    ELSE LET s == BLimb(a, i) + BLimb(b, i) + c
         IN  <<s % Limb>> \o BAddC(a, b, i + 1, s \div Limb)

BAdd(a, b) == BAddC(a, b, 1, 0)

\* a - b for a >= b
RECURSIVE BSubC(_, _, _, _)
BSubC(a, b, i, c) ==
    IF i > Len(a) THEN <<>>
    ELSE LET s == BLimb(a, i) - BLimb(b, i) - c
         IN  IF s < 0 THEN <<s + Limb>> \o BSubC(a, b, i + 1, 1)
                      ELSE <<s>> \o BSubC(a, b, i + 1, 0)

BSub(a, b) == BTrim(BSubC(a, b, 1, 0))

\* -1, 0, 1 as a < b, a = b, a > b
RECURSIVE BCmpAt(_, _, _)
BCmpAt(a, b, i) ==
    IF i = 0 THEN 0
    ELSE IF a[i] < b[i] THEN -1
    ELSE IF a[i] > b[i] THEN 1
    ELSE BCmpAt(a, b, i - 1)

BCmp(a, b) ==
    IF Len(a) < Len(b) THEN -1
    ELSE IF Len(a) > Len(b) THEN 1
    ELSE BCmpAt(a, b, Len(a))

\* a * k + c for 0 <= k < Limb
RECURSIVE BMulSmallC(_, _, _, _)
BMulSmallC(a, k, i, c) ==
    IF i > Len(a)
    THEN IF c = 0 THEN <<>> ELSE <<c>>
    ELSE LET s == a[i] * k + c
         IN  <<s % Limb>> \o BMulSmallC(a, k, i + 1, s \div Limb)

BMulSmall(a, k) == BTrim(BMulSmallC(a, k, 1, 0))

RECURSIVE BZeros(_)
BZeros(n) == IF n = 0 THEN <<>> ELSE <<0>> \o BZeros(n - 1)

RECURSIVE BMulAt(_, _, _)
BMulAt(a, b, i) ==
    IF i > Len(b) THEN <<>>
    ELSE BAdd(BZeros(i - 1) \o BMulSmall(a, b[i]), BMulAt(a, b, i + 1))

BMul(a, b) == BTrim(BMulAt(a, b, 1))

\* a * 2^n
BShl(a, n) ==
    IF a = <<>> THEN a
    ELSE BZeros(n \div LimbBits) \o BMulSmall(a, 2 ^ (n % LimbBits))

\* floor(a / 2^n): limbs i.. of a, each joined with the low bits of the next
RECURSIVE BShrAt(_, _, _, _)
BShrAt(a, i, p, q) ==
    IF i > Len(a) THEN <<>>
    ELSE <<(a[i] \div p) + (BLimb(a, i + 1) % p) * q>> \o BShrAt(a, i + 1, p, q)

BShr(a, n) ==
    LET r == n % LimbBits
    IN  BTrim(BShrAt(a, (n \div LimbBits) + 1, 2 ^ r, 2 ^ (LimbBits - r)))

\* bit i of a, bit 0 the least significant
BBit(a, i) == (BLimb(a, (i \div LimbBits) + 1) \div (2 ^ (i % LimbBits))) % 2

RECURSIVE NatBitLen(_)
NatBitLen(n) == IF n = 0 THEN 0 ELSE 1 + NatBitLen(n \div 2)

BBitLen(a) ==
    IF a = <<>> THEN 0 ELSE LimbBits * (Len(a) - 1) + NatBitLen(a[Len(a)])

\* whether the n low bits of a are all zero
BLowZero(a, n) == BShl(BShr(a, n), n) = a

\* the largest q in lo..hi with d * q <= r (d * lo <= r), by bisection
RECURSIVE BQuot(_, _, _, _)
BQuot(r, d, lo, hi) ==
    IF lo = hi THEN lo
    ELSE LET mid == (lo + hi + 1) \div 2
         IN  IF BCmp(BMulSmall(d, mid), r) <= 0
             THEN BQuot(r, d, mid, hi)
             ELSE BQuot(r, d, lo, mid - 1)

\* <<floor(n / d), n mod d>> for d > 0, by long division from limb i down
RECURSIVE BDivModAt(_, _, _, _, _)
BDivModAt(n, d, i, q, r) ==
    IF i = 0 THEN <<BTrim(q), r>>
    ELSE LET r2 == BTrim(<<n[i]>> \o r)
             qd == BQuot(r2, d, 0, Limb - 1)
         IN  BDivModAt(n, d, i - 1, <<qd>> \o q, BSub(r2, BMulSmall(d, qd)))

BDivMod(n, d) == BDivModAt(n, d, Len(n), <<>>, <<>>)

(***************************************************************************)
(* f64: IEEE-754 binary64.  A finite value is (-1)^s * m * 2^e with        *)
(* m < 2^53, and either m >= 2^52 (normal) or e = -1074 (subnormal, zero). *)
(***************************************************************************)
MantBits == 53
ExpMin == -1074
ExpMax == 971

Fin(s, m, e) == [k |-> "fin", s |-> s, m |-> m, e |-> e]
Inf(s) == [k |-> "inf", s |-> s, m |-> <<>>, e |-> 0]
NaN == [k |-> "nan", s |-> 0, m |-> <<>>, e |-> 0]
FZero(s) == Fin(s, <<>>, ExpMin)

IsNaN(x) == x.k = "nan"
IsInf(x) == x.k = "inf"
IsFinite(x) == x.k = "fin"
IsZero(x) == x.k = "fin" /\ x.m = <<>>

\* (-1)^s * q * 2^e for q below 2^53: infinite past the largest exponent
FPack(s, q, e) ==
    IF q = <<>> THEN FZero(s)
    ELSE IF e > ExpMax THEN Inf(s)
    ELSE Fin(s, q, e)

\* q2 after rounding up may have reached 2^53: renormalise
FCarry(s, q2, e) ==
    IF BBitLen(q2) > MantBits THEN FPack(s, BShr(q2, 1), e + 1) ELSE FPack(s, q2, e)

\* round q, the bits above the guard bit, to nearest with ties to even
FRoundUp(s, q, e, guard, rest) ==
    FCarry(s, IF guard = 1 /\ (rest \/ BBit(q, 0) = 1) THEN BAdd(q, <<1>>) ELSE q, e)

\* drop the sh low bits of m (sh may be negative: m is then shifted left, exactly)
FRoundSh(s, m, e, sticky, sh) ==
    IF sh <= 0 THEN FPack(s, BShl(m, -sh), e + sh)
    ELSE FRoundUp(s, BShr(m, sh), e + sh, BBit(m, sh - 1),
                  sticky \/ ~BLowZero(m, sh - 1))

\* the bits to drop from a significand of len bits: down to 53 bits, or further
\* when the exponent would fall below the subnormal exponent
FShift(len, e) == IF e + len - MantBits < ExpMin THEN ExpMin - e ELSE len - MantBits

\* The f64 nearest to (-1)^s * (m + t) * 2^e, ties to even, where t is some
\* value in (0, 1) when sticky and 0 otherwise (sticky needs m of 55 bits or more).
FRoundTo(s, m, e, sticky) ==
    IF m = <<>> THEN FZero(s)
    ELSE FRoundSh(s, m, e, sticky, FShift(BBitLen(m), e))

\* n as f64, for a natural number n of the model checker's integers (exact)
FromNat(n) == FRoundTo(0, BigOf(n), 0, FALSE)

FNeg(x) == IF IsNaN(x) THEN NaN ELSE [x EXCEPT !.s = 1 - x.s]

\* |mx - my| * 2^e with the sign of the larger magnitude; c compares mx and my,
\* and equal magnitudes cancel to +0
FSubMag(sx, mx, sy, my, e, c) ==
    IF c = 0 THEN FZero(0)
    ELSE IF c > 0 THEN FRoundTo(sx, BSub(mx, my), e, FALSE)
    ELSE FRoundTo(sy, BSub(my, mx), e, FALSE)

\* (-1)^sx * mx * 2^e + (-1)^sy * my * 2^e
FAddMag(sx, mx, sy, my, e) ==
    IF sx = sy THEN FRoundTo(sx, BAdd(mx, my), e, FALSE)
    ELSE FSubMag(sx, mx, sy, my, e, BCmp(mx, my))

\* x + y for nonzero finite x, y with x.e >= y.e.  When x.e - y.e > 56, |y| is
\* below one unit of m = x.m * 8, so it only decides the rounding.
FAddFar(s, m, e, same) ==
    FRoundTo(s, IF same THEN m ELSE BSub(m, <<1>>), e, TRUE)

FAddOrd(x, y) ==
    IF x.e - y.e > MantBits + 3
    THEN FAddFar(x.s, BShl(x.m, 3), x.e - 3, x.s = y.s)
    ELSE FAddMag(x.s, BShl(x.m, x.e - y.e), y.s, y.m, y.e)

FAdd(x, y) ==
    IF IsNaN(x) \/ IsNaN(y) THEN NaN
    ELSE IF IsInf(x) THEN (IF IsInf(y) /\ y.s # x.s THEN NaN ELSE x)
    ELSE IF IsInf(y) THEN y
    ELSE IF IsZero(x) /\ IsZero(y) THEN FZero(IF x.s = 1 /\ y.s = 1 THEN 1 ELSE 0)
    ELSE IF IsZero(x) THEN y
    ELSE IF IsZero(y) THEN x
    ELSE FAddOrd(IF x.e >= y.e THEN x ELSE y, IF x.e >= y.e THEN y ELSE x)

FSub(x, y) == FAdd(x, FNeg(y))

FMul(x, y) ==
    IF IsNaN(x) \/ IsNaN(y) THEN NaN
    ELSE IF IsInf(x) \/ IsInf(y)
         THEN (IF IsZero(x) \/ IsZero(y) THEN NaN ELSE Inf((x.s + y.s) % 2))
    ELSE FRoundTo((x.s + y.s) % 2, BMul(x.m, y.m), x.e + y.e, FALSE)

\* qr is <<quotient, remainder>>: a nonzero remainder only decides the rounding
FDivRound(s, qr, e) == FRoundTo(s, qr[1], e, qr[2] # <<>>)

\* x.m * 2^k / y.m, with k large enough for a quotient of 55 bits or more
FDivBy(s, x, y, k) == FDivRound(s, BDivMod(BShl(x.m, k), y.m), x.e - y.e - k)

FDivSigned(s, x, y) ==
    IF IsInf(x) THEN (IF IsInf(y) THEN NaN ELSE Inf(s))
    ELSE IF IsInf(y) THEN FZero(s)
    ELSE IF IsZero(y) THEN (IF IsZero(x) THEN NaN ELSE Inf(s))
    ELSE IF IsZero(x) THEN FZero(s)
    ELSE FDivBy(s, x, y, Max(0, MantBits + 3 + BBitLen(y.m) - BBitLen(x.m)))

FDiv(x, y) ==
    IF IsNaN(x) \/ IsNaN(y) THEN NaN ELSE FDivSigned((x.s + y.s) % 2, x, y)

\* q + half for the integer part q and the first fraction bit half
FHalfUp(q, half) == IF half = 1 THEN BAdd(q, <<1>>) ELSE q

\* f64::round: to the nearest integer, halves away from zero
FRound(x) ==
    IF ~IsFinite(x) \/ x.e >= 0 THEN x
    ELSE FRoundTo(x.s, FHalfUp(BShr(x.m, -x.e), BBit(x.m, -x.e - 1)), 0, FALSE)

(***************************************************************************)
(* u64                                                                     *)
(***************************************************************************)
U64Bits == 64
U64Max == BSub(BShl(<<1>>, U64Bits), <<1>>)

\* the value v saturated at u64::MAX
SatU64(v) == IF BCmp(v, U64Max) > 0 THEN U64Max ELSE v

\* `x as u64` of an f64: truncates toward zero, saturates, NaN to 0
FToU64(x) ==
    IF IsNaN(x) THEN <<>>
    ELSE IF x.s = 1 THEN <<>>
    ELSE IF IsInf(x) THEN U64Max
    ELSE SatU64(IF x.e >= 0 THEN BShl(x.m, x.e) ELSE BShr(x.m, -x.e))

\* u64::to_le_bytes: eight bytes, least significant first
RECURSIVE le_bytes_of(_, _)
le_bytes_of(n, count) ==
    IF count = 0 THEN <<>>
    ELSE <<BLimb(n, 1) % 256>> \o le_bytes_of(BShr(n, 8), count - 1)

to_le_bytes(n) == le_bytes_of(n, 8)

\* u64::from_le_bytes
RECURSIVE from_le_bytes_at(_, _)
from_le_bytes_at(b, i) ==
    IF i > Len(b) THEN <<>>
    ELSE BAdd(BigOf(b[i]), BShl(from_le_bytes_at(b, i + 1), 8))

from_le_bytes(b) == from_le_bytes_at(b, 1)

(***************************************************************************)
(* serde_json::Value and the accessors the program uses.  An Option is the *)
(* value itself or None.                                                   *)
(***************************************************************************)
None == [t |-> "none"]
JNull == [t |-> "null"]
JBool(b) == [t |-> "bool", b |-> b]
\* the number literal (-1)^neg * m * 10^e10 (m below 2^31, |e10| <= 22)
JNum(m, e10) == [t |-> "num", neg |-> FALSE, m |-> m, e10 |-> e10]
JNeg(m, e10) == [t |-> "num", neg |-> TRUE, m |-> m, e10 |-> e10]
JStr(s) == [t |-> "str", s |-> s]
JArr(a) == [t |-> "arr", a |-> a]
JObj(f) == [t |-> "obj", f |-> f]

\* Value::get with a string index: Some only for a key of an object
Get(v, key) == IF v.t = "obj" /\ key \in DOMAIN v.f THEN v.f[key] ELSE None

IsSome(o) == o.t # "none"
AsArray(o) == IF o.t = "arr" THEN o ELSE None
AsStr(o) == IF o.t = "str" THEN o ELSE None

\* 10^k as f64, exact for k <= 22
RECURSIVE Pow10(_)
Pow10(k) == IF k <= 9 THEN FromNat(10 ^ k) ELSE FMul(FromNat(10 ^ 9), Pow10(k - 9))

\* The f64 serde_json makes of the literal m * 10^e10: m as f64, then one
\* correctly rounded multiplication or division by a power of ten.
Dec(m, e10) ==
    IF e10 = 0 THEN FromNat(m)
    ELSE IF e10 > 0 THEN FMul(FromNat(m), Pow10(e10))
    ELSE FDiv(FromNat(m), Pow10(-e10))

\* Value::as_f64 of a number
NumF64(o) == IF o.neg THEN FNeg(Dec(o.m, o.e10)) ELSE Dec(o.m, o.e10)

\* Value::as_f64 and then unwrap_or(d)
UnwrapOrF64(o, d) == IF o.t = "num" THEN NumF64(o) ELSE d

F0 == FZero(0)
F1 == FromNat(1)
F12 == FromNat(12)
F1000 == FromNat(1000)
FTenth == Dec(1, -1)

(***************************************************************************)
(* Classification and the per-type deltas.                                 *)
(***************************************************************************)
identify_file_type_payroll_first(data) ==
    IF IsSome(Get(data, "employeeDetails")) THEN "PayrollExpense"
    ELSE IF IsSome(Get(data, "journalEntryId")) THEN "JournalEntry"
    ELSE "Unknown"

identify_file_type(data) ==
    LET asset_list == AsArray(Get(data, "assetList"))
    IN  IF IsSome(Get(data, "journalEntryId")) THEN "JournalEntry"
        ELSE IF IsSome(asset_list) /\ Len(asset_list.a) # 0
                /\ IsSome(Get(asset_list.a[1], "assetID"))
             THEN "FixedAssetsRegister"
        ELSE IF IsSome(Get(data, "employeeDetails")) THEN "PayrollExpense"
        ELSE IF AsStr(Get(data, "reportTitle")) = JStr("Corporate Overhead Report")
             THEN "OverheadReport"
        ELSE "Unknown"

\* the loop over credits without its break: the last "Sales Revenue" decides
RECURSIVE journal_credits_no_break(_, _, _)
journal_credits_no_break(credits, i, amount) ==
    IF i > Len(credits) THEN amount
    ELSE journal_credits_no_break(credits, i + 1,
             IF AsStr(Get(credits[i], "account")) = JStr("Sales Revenue")
             THEN UnwrapOrF64(Get(credits[i], "amount"), F0)
             ELSE amount)

process_journal_entry_no_break(data) ==
    LET credits == AsArray(Get(data, "credits"))
    IN  IF IsSome(credits) THEN journal_credits_no_break(credits.a, 1, F0) ELSE F0

\* the loop over credits from element i on: the first "Sales Revenue" ends it
RECURSIVE journal_credits_from(_, _)
journal_credits_from(credits, i) ==
    IF i > Len(credits) THEN F0
    ELSE IF AsStr(Get(credits[i], "account")) = JStr("Sales Revenue")
         THEN UnwrapOrF64(Get(credits[i], "amount"), F0)
         ELSE journal_credits_from(credits, i + 1)

process_journal_entry(data) ==
    LET credits == AsArray(Get(data, "credits"))
    IN  IF IsSome(credits) THEN journal_credits_from(credits.a, 1) ELSE F0

asset_cost(asset) == UnwrapOrF64(Get(asset, "originalCost"), F0)
asset_residual(asset) == UnwrapOrF64(Get(asset, "residualValue"), F0)
asset_life(asset) == UnwrapOrF64(Get(asset, "usefulLife_years"), F1)
asset_divisor(asset) == FMul(asset_life(asset), F12)
monthly_dep(asset) == FDiv(FSub(asset_cost(asset), asset_residual(asset)), asset_divisor(asset))

\* total after the loop has run over elements i.. of the list, from total
RECURSIVE assets_total_from(_, _, _)
assets_total_from(list, i, total) ==
    IF i > Len(list) THEN total
    ELSE assets_total_from(list, i + 1, FAdd(total, monthly_dep(list[i])))

process_fixed_assets(data) ==
    LET list == AsArray(Get(data, "assetList"))
    IN  FNeg(IF IsSome(list) THEN assets_total_from(list.a, 1, F0) ELSE F0)

process_payroll(data) == FNeg(UnwrapOrF64(Get(data, "grossPay"), F0))

process_overhead(data) ==
    FNeg(FMul(UnwrapOrF64(Get(data, "totalOverheadCost"), F0), FTenth))

\* the match on file_type of both entry points
change_of(file_type, data) ==
    CASE file_type = "JournalEntry" -> process_journal_entry(data)
      [] file_type = "FixedAssetsRegister" -> process_fixed_assets(data)
      [] file_type = "PayrollExpense" -> process_payroll(data)
      [] file_type = "OverheadReport" -> process_overhead(data)
      [] OTHER -> F0

(***************************************************************************)
(* The documents of the model.  A JSON text is named by what it holds:     *)
(* [kind |-> "array", ids |-> <<...>>] is the text of a JSON array of the  *)
(* documents with these ids, [kind |-> "value", ids |-> <<id>>] the text   *)
(* of one document alone, and [kind |-> "garbage", ids |-> <<>>] a text    *)
(* that is not JSON.                                                       *)
(***************************************************************************)
SalesCredit(amount) == JObj([account |-> JStr("Sales Revenue"), amount |-> amount])
DocJournal(amount) ==
    JObj([journalEntryId |-> JStr("JE-2025-001"), credits |-> JArr(<<SalesCredit(amount)>>)])
DocPayroll(gross) == JObj([employeeDetails |-> JObj(<<>>), grossPay |-> gross])
DocAssets(list) == JObj([assetList |-> JArr(list)])

\* The documents batches of every length are made of.
PipelinePool ==
    << DocJournal(JNum(50000, 0)),      \* {"journalEntryId":"JE-2025-001","credits":[{"account":"Sales Revenue","amount":50000.0}]}
       DocPayroll(JNum(20000, 0)),      \* {"employeeDetails":{},"grossPay":20000.0}
       DocJournal(JNum(12345675, -4)),  \* as the first, "amount":1234.5675
       JObj([memo |-> JStr("n/a")]),    \* {"memo":"n/a"}
       DocAssets(<<JObj([assetID |-> JStr("A-1"), residualValue |-> JNum(1200, 0),
                         usefulLife_years |-> JNum(0, 0)])>>)
                                        \* {"assetList":[{"assetID":"A-1","residualValue":1200,"usefulLife_years":0}]}
    >>

\* The documents that also come as a batch of their own.
LonePool ==
    << DocAssets(<<JObj([assetID |-> JStr("A-2"), usefulLife_years |-> JNum(0, 0)])>>),
                                        \* {"assetList":[{"assetID":"A-2","usefulLife_years":0}]}
       DocJournal(JNeg(1, -4))          \* as the first of the pool, "amount":-0.0001
    >>

\* the object of the fields of opt that are present
ObjectOf(opt) == JObj([k \in {f \in DOMAIN opt : IsSome(opt[f])} |-> opt[k]])

\* Documents with every combination of the four fields classification reads;
\* each also carries the fields the deltas read.
JournalIdOpts == <<None, JStr("JE-1"), JNull>>
AssetListOpts ==
    << None, JStr("n/a"), JArr(<<>>), JArr(<<JObj([name |-> JStr("desk")])>>), JArr(<<JNum(5, 0)>>),
       JArr(<<JObj([assetID |-> JStr("A-1"), originalCost |-> JNum(1200, 0)])>>) >>
EmployeeOpts == <<None, JObj(<<>>), JNull>>
ReportTitleOpts ==
    <<None, JStr("Corporate Overhead Report"), JStr("corporate overhead report"), JNum(1, 0)>>

ClassDoc(n) ==
    LET nj == Len(JournalIdOpts)
        na == Len(AssetListOpts)
        ne == Len(EmployeeOpts)
    IN  ObjectOf([ journalEntryId |-> JournalIdOpts[(n % nj) + 1],
                   assetList |-> AssetListOpts[((n \div nj) % na) + 1],
                   employeeDetails |-> EmployeeOpts[((n \div (nj * na)) % ne) + 1],
                   reportTitle |-> ReportTitleOpts[(n \div (nj * na * ne)) + 1],
                   credits |-> JArr(<<SalesCredit(JNum(50000, 0))>>),
                   grossPay |-> JNum(20000, 0),
                   totalOverheadCost |-> JNum(1000, 0) ])

NumClassDocs == Len(JournalIdOpts) * Len(AssetListOpts) * Len(EmployeeOpts) * Len(ReportTitleOpts)

\* Journal entries whose credits differ.
OtherCredit(amount) == JObj([account |-> JStr("Accounts Receivable"), amount |-> amount])
CreditsOpts ==
    << None, JStr("n/a"), JArr(<<>>),
       JArr(<<OtherCredit(JNum(5, 0))>>),
       JArr(<<SalesCredit(JNum(50000, 0))>>),
       JArr(<<JObj([account |-> JStr("Sales Revenue")]), SalesCredit(JNum(7, 0))>>),
       JArr(<<SalesCredit(JStr("50000")), SalesCredit(JNum(7, 0))>>),
       JArr(<<OtherCredit(JNum(5, 0)), SalesCredit(JNum(7, 0)), SalesCredit(JNum(9, 0))>>),
       JArr(<<JObj([account |-> JNum(1, 0), amount |-> JNum(3, 0)]), SalesCredit(JNum(7, 0))>>),
       JArr(<<JObj([account |-> JStr("sales revenue"), amount |-> JNum(3, 0)]),
              JNum(4, 0), SalesCredit(JNeg(125, -1))>>) >>

JournalDoc(n) == ObjectOf([journalEntryId |-> JStr("JE-2"), credits |-> CreditsOpts[n]])

\* Fixed-asset registers: every combination of the three fields of an asset,
\* alone and followed by a second asset.
CostOpts == <<None, JNum(1200, 0), JStr("1200")>>
ResidualOpts == <<None, JNum(200, 0)>>
LifeOpts == <<None, JStr("5"), JNum(5, 0), JNum(0, 0), JNeg(0, 0), JNum(5, -1)>>

AssetOf(n) ==
    ObjectOf([ assetID |-> JStr("A-1"),
               originalCost |-> CostOpts[(n % Len(CostOpts)) + 1],
               residualValue |-> ResidualOpts[((n \div Len(CostOpts)) % Len(ResidualOpts)) + 1],
               usefulLife_years |-> LifeOpts[(n \div (Len(CostOpts) * Len(ResidualOpts))) + 1] ])

SecondAsset == JObj([originalCost |-> JNum(3600, 0), usefulLife_years |-> JNum(10, 0)])

NumAssets == Len(CostOpts) * Len(ResidualOpts) * Len(LifeOpts)

AssetDoc(n) ==
    IF n <= NumAssets THEN DocAssets(<<AssetOf(n - 1)>>)
    ELSE DocAssets(<<AssetOf(n - NumAssets - 1), SecondAsset>>)

\* Documents that are not objects.
ScalarDocs == <<JNull, JNum(5, 0), JStr("journalEntryId"), JArr(<<DocJournal(JNum(50000, 0))>>)>>

\* The corpus: the two pools, then the documents above, numbered from 1.
PoolIds == 1..Len(PipelinePool)
LoneIds == (Len(PipelinePool) + 1)..(Len(PipelinePool) + Len(LonePool))
ClassBase == Len(PipelinePool) + Len(LonePool)
JournalBase == ClassBase + NumClassDocs
AssetBase == JournalBase + Len(CreditsOpts)
ScalarBase == AssetBase + 2 * NumAssets
NumDocs == ScalarBase + Len(ScalarDocs)

DocOf(id) ==
    IF id <= Len(PipelinePool) THEN PipelinePool[id]
    ELSE IF id <= ClassBase THEN LonePool[id - Len(PipelinePool)]
    ELSE IF id <= JournalBase THEN ClassDoc(id - ClassBase - 1)
    ELSE IF id <= AssetBase THEN JournalDoc(id - JournalBase)
    ELSE IF id <= ScalarBase THEN AssetDoc(id - AssetBase)
    ELSE ScalarDocs[id - ScalarBase]

(***************************************************************************)
(* The collaborators: the JSON parser, SHA-256, Ed25519 and the clock.     *)
(***************************************************************************)
ArrayText(ids) == [kind |-> "array", ids |-> ids]
ValueText(id) == [kind |-> "value", ids |-> <<id>>]
GarbageText == [kind |-> "garbage", ids |-> <<>>]

Ok(v) == [ok |-> TRUE, v |-> v]
Err == [ok |-> FALSE, v |-> <<>>]

\* serde_json::from_str::<Value>
parse_value(text) ==
    CASE text.kind = "value" -> Ok(DocOf(text.ids[1]))
      [] text.kind = "array" -> Ok(JArr([i \in 1..Len(text.ids) |-> DocOf(text.ids[i])]))
      [] OTHER -> Err

\* a parser that takes a lone document for a batch of one
parse_batch_lenient(text) ==
    LET v == parse_value(text)
    IN  IF ~v.ok THEN Err ELSE IF v.v.t = "arr" THEN Ok(v.v.a) ELSE Ok(<<v.v>>)

\* serde_json::from_str::<Vec<Value>>: only a JSON array is a batch
parse_batch(text) ==
    LET v == parse_value(text)
    IN  IF v.ok /\ v.v.t = "arr" THEN Ok(v.v.a) ELSE Err

\* Sha256 of the bytes of a text: 32 bytes that depend on the text alone
RECURSIVE TextCode(_, _, _)
TextCode(ids, i, c) ==
    IF i > Len(ids) THEN c ELSE TextCode(ids, i + 1, (c * 331 + ids[i]) % 65521)

calculate_documents_hash(text) ==
    LET c == TextCode(text.ids, 1, IF text.kind = "array" THEN 1 ELSE IF text.kind = "value" THEN 2 ELSE 3)
    IN  [i \in 1..32 |-> ((c \div 256) * i + (c % 256) + i * i) % 256]

\* An Ed25519 keypair: the public key is determined by the secret.
public_of(secret) == [i \in 1..32 |-> (secret * i + 7 * i * i) % 256]
Keypair(secret) == [secret |-> secret, public |-> public_of(secret)]
Keypairs == {Keypair(7), Keypair(200)}

\* Keypair::sign: 64 bytes determined by the secret and every byte of the message
Sign(keypair, message) ==
    [i \in 1..64 |-> (message[((i - 1) % Len(message)) + 1] + keypair.secret * i) % 256]

\* What SystemTime::now() can read: a time before the epoch, or some
\* milliseconds after it (one below and one above 2^64).
ClockReadings ==
    { [before_epoch |-> TRUE, ms |-> <<1>>],
      [before_epoch |-> FALSE, ms |-> BAdd(BMul(BigOf(1762383), BigOf(1000000)), BigOf(600123))],
      [before_epoch |-> FALSE, ms |-> BAdd(BShl(<<1>>, U64Bits), BigOf(1000))] }

\* u128 as u64: the low 64 bits
TruncU64(n) == BSub(n, BShl(BShr(n, U64Bits), U64Bits))

(***************************************************************************)
(* TEEAttestation::to_bytes and its inverse.                               *)
(***************************************************************************)
to_bytes_hash_first(a) ==
    a.computation_hash \o to_le_bytes(a.kpi_value) \o to_le_bytes(a.timestamp)
        \o a.tee_public_key \o a.signature

to_bytes(a) ==
    to_le_bytes(a.kpi_value) \o a.computation_hash \o to_le_bytes(a.timestamp)
        \o a.tee_public_key \o a.signature

\* the five fields at the fixed offsets of the 144-byte format
decode(bytes) ==
    [ kpi_value |-> from_le_bytes(SubSeq(bytes, 1, 8)),
      computation_hash |-> SubSeq(bytes, 9, 40),
      timestamp |-> from_le_bytes(SubSeq(bytes, 41, 48)),
      tee_public_key |-> SubSeq(bytes, 49, 80),
      signature |-> SubSeq(bytes, 81, 144) ]

\* the message calculate_kpi_with_attestation signs
signing_message_timestamp_first(kpi_value, computation_hash, timestamp) ==
    to_le_bytes(timestamp) \o computation_hash \o to_le_bytes(kpi_value)

signing_message(kpi_value, computation_hash, timestamp) ==
    to_le_bytes(kpi_value) \o computation_hash \o to_le_bytes(timestamp)

\* without the rounding
quantize_truncating(kpi) == FToU64(FMul(kpi, F1000))

\* through a signed integer: a negative value wraps to 2^64 - |value|
wrap_negative(r) ==
    IF IsFinite(r) /\ r.s = 1 /\ ~IsZero(r)
    THEN BSub(BShl(<<1>>, U64Bits), FToU64(FNeg(r)))
    ELSE FToU64(r)

quantize_wrapping(kpi) == wrap_negative(FRound(FMul(kpi, F1000)))

\* (cumulative_kpi * 1000.0).round() as u64

quantize(kpi) == FToU64(FRound(FMul(kpi, F1000)))

(***************************************************************************)
(* The state: one call of calculate_kpi_with_attestation on documents_json *)
(* with tee_keypair, and the calls of calculate_kpi a caller makes with    *)
(* the same documents one at a time, passing each result's kpi to the next *)
(* call.  An unset byte string is empty and an Option is a sequence of     *)
(* length 0 or 1.                                                          *)
(***************************************************************************)
MaxDocs == 3

VARIABLES
    documents_json,     \* the text handed to calculate_kpi_with_attestation
    tee_keypair,
    pc,                 \* "idle", "loop", "clock", "quantize", "sign", "attest", "done", "aborted"
    abort,              \* the panic message when pc = "aborted"
    documents,          \* the parsed batch
    processed,          \* documents the loop has run over
    cumulative_kpi,
    last_file_type,
    computation_hash,
    timestamp,
    kpi_value_u64,
    signature_bytes,
    public_key_bytes,
    result,             \* the KPIResultWithAttestation returned
    steps,              \* what the call has done so far
    fed,                \* documents handed to calculate_kpi so far
    current_kpi,        \* the running total the caller passes next
    single              \* the outcome of the last calculate_kpi call

vars == << documents_json, tee_keypair, pc, abort, documents, processed, cumulative_kpi,
           last_file_type, computation_hash, timestamp, kpi_value_u64, signature_bytes,
           public_key_bytes, result, steps, fed, current_kpi, single >>

batch_vars == << pc, abort, documents, processed, cumulative_kpi, last_file_type,
                 computation_hash, timestamp, kpi_value_u64, signature_bytes,
                 public_key_bytes, result, steps >>

Batches == UNION {[1..n -> PoolIds] : n \in 0..MaxDocs} \cup {<<id>> : id \in LoneIds}

\* the texts the caller hands to calculate_kpi, in order
SingleTexts(text) ==
    IF text.kind = "array" THEN [i \in 1..Len(text.ids) |-> ValueText(text.ids[i])]
    ELSE <<text>>

InitCall ==
    /\ pc = "idle"
    /\ abort = ""
    /\ documents = <<>>
    /\ processed = 0
    /\ cumulative_kpi = F0
    /\ last_file_type = "Unknown"
    /\ computation_hash = <<>>
    /\ timestamp = <<>>
    /\ kpi_value_u64 = <<>>
    /\ signature_bytes = <<>>
    /\ public_key_bytes = <<>>
    /\ result = <<>>
    /\ steps = {}
    /\ fed = 0
    /\ single = <<>>

Init ==
    /\ documents_json \in {ArrayText(b) : b \in Batches}
                          \cup {ValueText(1), GarbageText}
    /\ tee_keypair \in Keypairs
    /\ current_kpi = F0
    /\ InitCall

(***************************************************************************)
(* calculate_kpi: one document and the caller's running total.             *)
(***************************************************************************)
\* with `kpi: change` for `kpi: current_kpi + change`
calculate_kpi_overwriting(json_str, running) ==
    LET data == parse_value(json_str)
        file_type == identify_file_type(data.v)
        change == change_of(file_type, data.v)
    IN  IF ~data.ok THEN [panicked |-> TRUE, kpi |-> running, change |-> F0, file_type |-> ""]
        ELSE [panicked |-> FALSE, kpi |-> change, change |-> change, file_type |-> file_type]

calculate_kpi(json_str, running) ==
    LET data == parse_value(json_str)
        file_type == identify_file_type(data.v)
        change == change_of(file_type, data.v)
    IN  IF ~data.ok THEN [panicked |-> TRUE, kpi |-> running, change |-> F0, file_type |-> ""]
        ELSE [panicked |-> FALSE, kpi |-> FAdd(running, change), change |-> change,
              file_type |-> file_type]

SinglePanicked == single # <<>> /\ single[1].panicked

\* the caller has no further document to hand over
SinglesOver == IF SinglePanicked THEN TRUE ELSE fed = Len(SingleTexts(documents_json))

CalculateKpi ==
    /\ pc = "idle"
    /\ ~SinglesOver
    /\ LET r == calculate_kpi(SingleTexts(documents_json)[fed + 1], current_kpi)
       IN  /\ single' = <<r>>
           /\ fed' = fed + 1
           /\ current_kpi' = r.kpi
    /\ UNCHANGED <<documents_json, tee_keypair, batch_vars>>

(***************************************************************************)
(* calculate_kpi_with_attestation, statement by statement.                 *)
(***************************************************************************)
\* the body of the loop with `cumulative_kpi = change` for `+=`
process_document_assigning(total, document) ==
    LET file_type == identify_file_type(document)
    IN  [ cumulative_kpi |-> change_of(file_type, document), last_file_type |-> file_type ]

\* the body of the loop: the new cumulative_kpi and last_file_type
process_document(total, document) ==
    LET file_type == identify_file_type(document)
    IN  [ cumulative_kpi |-> FAdd(total, change_of(file_type, document)),
          last_file_type |-> file_type ]

Parse ==
    /\ pc = "idle"
    /\ SinglesOver
    /\ LET r == parse_batch(documents_json)
       IN  IF r.ok
           THEN /\ documents' = r.v
                /\ pc' = "loop"
                /\ abort' = abort
           ELSE /\ documents' = documents
                /\ pc' = "aborted"
                /\ abort' = "Invalid documents JSON"
    /\ steps' = steps \cup {"parse"}
    /\ UNCHANGED << documents_json, tee_keypair, processed, cumulative_kpi, last_file_type,
                    computation_hash, timestamp, kpi_value_u64, signature_bytes,
                    public_key_bytes, result, fed, current_kpi, single >>

ProcessDocument ==
    /\ pc = "loop"
    /\ processed < Len(documents)
    /\ LET r == process_document(cumulative_kpi, documents[processed + 1])
       IN  /\ cumulative_kpi' = r.cumulative_kpi
           /\ last_file_type' = r.last_file_type
    /\ processed' = processed + 1
    /\ steps' = steps \cup {"classify", "delta"}
    /\ UNCHANGED << documents_json, tee_keypair, pc, abort, documents, computation_hash,
                    timestamp, kpi_value_u64, signature_bytes, public_key_bytes, result,
                    fed, current_kpi, single >>

ComputeHash ==
    /\ pc = "loop"
    /\ processed = Len(documents)
    /\ computation_hash' = calculate_documents_hash(documents_json)
    /\ pc' = "clock"
    /\ steps' = steps \cup {"hash"}
    /\ UNCHANGED << documents_json, tee_keypair, abort, documents, processed, cumulative_kpi,
                    last_file_type, timestamp, kpi_value_u64, signature_bytes,
                    public_key_bytes, result, fed, current_kpi, single >>

\* get_timestamp_ms: duration_since(UNIX_EPOCH).expect(..).as_millis() as u64
GetTimestamp ==
    /\ pc = "clock"
    /\ \E now \in ClockReadings :
          IF now.before_epoch
          THEN /\ pc' = "aborted"
               /\ abort' = "Time went backwards"
               /\ timestamp' = timestamp
          ELSE /\ pc' = "quantize"
               /\ abort' = abort
               /\ timestamp' = TruncU64(now.ms)
    /\ steps' = steps \cup {"clock"}
    /\ UNCHANGED << documents_json, tee_keypair, documents, processed, cumulative_kpi,
                    last_file_type, computation_hash, kpi_value_u64, signature_bytes,
                    public_key_bytes, result, fed, current_kpi, single >>

Quantize ==
    /\ pc = "quantize"
    /\ kpi_value_u64' = quantize(cumulative_kpi)
    /\ pc' = "sign"
    /\ steps' = steps \cup {"quantize"}
    /\ UNCHANGED << documents_json, tee_keypair, abort, documents, processed, cumulative_kpi,
                    last_file_type, computation_hash, timestamp, signature_bytes,
                    public_key_bytes, result, fed, current_kpi, single >>

SignMessage ==
    /\ pc = "sign"
    /\ LET message == signing_message(kpi_value_u64, computation_hash, timestamp)
       IN  signature_bytes' = Sign(tee_keypair, message)
    /\ public_key_bytes' = tee_keypair.public
    /\ pc' = "attest"
    /\ steps' = steps \cup {"sign"}
    /\ UNCHANGED << documents_json, tee_keypair, abort, documents, processed, cumulative_kpi,
                    last_file_type, computation_hash, timestamp, kpi_value_u64, result,
                    fed, current_kpi, single >>

\* the attestation, its bytes (with the assertion of to_bytes) and the result
BuildResult ==
    /\ pc = "attest"
    /\ LET attestation == [ kpi_value |-> kpi_value_u64,
                            computation_hash |-> computation_hash,
                            timestamp |-> timestamp,
                            tee_public_key |-> public_key_bytes,
                            signature |-> signature_bytes ]
           attestation_bytes == to_bytes(attestation)
           kpi_result == [ kpi |-> cumulative_kpi, change |-> cumulative_kpi,
                           file_type |-> last_file_type ]
       IN  IF Len(attestation_bytes) # 144
           THEN /\ pc' = "aborted"
                /\ abort' = "Attestation must be exactly 144 bytes"
                /\ result' = result
           ELSE /\ pc' = "done"
                /\ abort' = abort
                /\ result' = << [ kpi_result |-> kpi_result, attestation |-> attestation,
                                  attestation_bytes |-> attestation_bytes ] >>
    /\ steps' = steps \cup {"encode"}
    /\ UNCHANGED << documents_json, tee_keypair, documents, processed, cumulative_kpi,
                    last_file_type, computation_hash, timestamp, kpi_value_u64,
                    signature_bytes, public_key_bytes, fed, current_kpi, single >>

Next ==
    \/ CalculateKpi
    \/ Parse
    \/ ProcessDocument
    \/ ComputeHash
    \/ GetTimestamp
    \/ Quantize
    \/ SignMessage
    \/ BuildResult

Spec == Init /\ [][Next]_vars

(***************************************************************************)
(* calculate_kpi alone, on every document of the corpus.                   *)
(***************************************************************************)
StartKpis == {F0, Dec(1005, -1)}

InitDoc ==
    /\ documents_json \in {ValueText(id) : id \in 1..NumDocs} \cup {GarbageText}
    /\ tee_keypair \in Keypairs
    /\ current_kpi \in StartKpis
    /\ InitCall

SpecDoc == InitDoc /\ [][CalculateKpi]_vars

(***************************************************************************)
(* Properties.  What a finished call returned is result[1]; the batch is   *)
(* documents_json.ids.                                                     *)
(***************************************************************************)
Returned == pc = "done"
IsBatch == documents_json.kind = "array"
Ids == documents_json.ids

\* the == of f64
FEq(x, y) ==
    IF IsNaN(x) \/ IsNaN(y) THEN FALSE
    ELSE IF IsZero(x) /\ IsZero(y) THEN TRUE
    ELSE x = y

\* the f64 nearest to an integer below 2^64 (exact for a u64 made from an f64)
FromU64(n) == FRoundTo(0, n, 0, FALSE)

\* Ed25519 verification: the signature is the one the owner of the public key
\* makes of the message
Verify(public, message, signature) ==
    \E kp \in Keypairs : kp.public = public /\ Sign(kp, message) = signature

\* x < 0, x <= 0 and x >= 0 of f64 (all false of NaN; -0.0 is zero)
FNegative(x) == ~IsNaN(x) /\ x.s = 1 /\ ~IsZero(x)
FNonPositive(x) == ~IsNaN(x) /\ (x.s = 1 \/ IsZero(x))
FNonNegative(x) == ~IsNaN(x) /\ (x.s = 0 \/ IsZero(x))

\* a finite f64 whose value lies in 0 .. 2^64 - 1 (an integer after rounding)
InU64Range(r) ==
    IsFinite(r) /\ (IsZero(r) \/ (r.s = 0 /\ BBitLen(r.m) + r.e <= U64Bits))

\* the delta of one document, and the deltas of a sequence of documents
\* added from left to right to acc
DeltaOf(id) == change_of(identify_file_type(DocOf(id)), DocOf(id))

RECURSIVE SumFrom(_, _, _)
SumFrom(ids, i, acc) ==
    IF i > Len(ids) THEN acc ELSE SumFrom(ids, i + 1, FAdd(acc, DeltaOf(ids[i])))

SumOfDeltas(ids) == SumFrom(ids, 1, F0)

\* the orderings of a sequence
Orderings(ids) ==
    {[i \in 1..Len(ids) |-> ids[p[i]]] : p \in Permutations(1..Len(ids))}

LastType(ids) ==
    IF ids = <<>> THEN "Unknown" ELSE identify_file_type(DocOf(ids[Len(ids)]))

\* C1: attestation_bytes of every result is exactly 144 bytes and holds the
\* attestation's fields at the fixed offsets (kpi_value little-endian in
\* bytes 0..8, computation_hash in 8..40, timestamp little-endian in 40..48,
\* tee_public_key in 48..80, signature in 80..144); decoding the five ranges
\* gives back every field, and the assertion of to_bytes never fires.
C1_Encoding ==
    /\ abort # "Attestation must be exactly 144 bytes"
    /\ Returned =>
         LET a == result[1].attestation
             b == result[1].attestation_bytes
         IN  /\ Len(b) = 144
             /\ SubSeq(b, 1, 8) = to_le_bytes(a.kpi_value)
             /\ SubSeq(b, 9, 40) = a.computation_hash
             /\ SubSeq(b, 41, 48) = to_le_bytes(a.timestamp)
             /\ SubSeq(b, 49, 80) = a.tee_public_key
             /\ SubSeq(b, 81, 144) = a.signature
             /\ decode(b) = a

C1_Witness ==
    /\ Returned
    /\ result[1].attestation.kpi_value = BigOf(31234568)
    /\ result[1].attestation.timestamp = BigOf(1000)
    /\ Len(result[1].attestation_bytes) = 144
    /\ decode(result[1].attestation_bytes).kpi_value = BigOf(31234568)

\* C2: in every returned attestation the signature is the supplied keypair's
\* signature of the 48 bytes kpi_value (8, little-endian) || computation_hash
\* (32) || timestamp (8, little-endian) of that same attestation, and
\* tee_public_key is the keypair's public key; so the signature verifies
\* against tee_public_key over that message, which is bytes 0..48 of
\* attestation_bytes.
C2_Signature ==
    Returned =>
      LET a == result[1].attestation
          message == to_le_bytes(a.kpi_value) \o a.computation_hash \o to_le_bytes(a.timestamp)
      IN  /\ Len(message) = 48
          /\ a.signature = Sign(tee_keypair, message)
          /\ a.tee_public_key = tee_keypair.public
          /\ Verify(a.tee_public_key, message, a.signature)
          /\ SubSeq(result[1].attestation_bytes, 1, 48) = message
          /\ Verify(a.tee_public_key, SubSeq(result[1].attestation_bytes, 1, 48), a.signature)

C2_Witness ==
    /\ Returned
    /\ tee_keypair = Keypair(200)
    /\ result[1].attestation.kpi_value = BigOf(30000000)
    /\ result[1].attestation.tee_public_key = public_of(200)
    /\ Verify(public_of(200), SubSeq(result[1].attestation_bytes, 1, 48),
              result[1].attestation.signature)

\* C3 as stated: the returned kpi is the sum of the deltas, change equals kpi,
\* file_type is the classification of the last document, and every ordering
\* of the same documents gives the same kpi.
C3_OrderIndependent ==
    Returned =>
      /\ result[1].kpi_result.kpi = SumOfDeltas(Ids)
      /\ result[1].kpi_result.change = result[1].kpi_result.kpi
      /\ result[1].kpi_result.file_type = LastType(Ids)
      /\ \A q \in Orderings(Ids) : SumOfDeltas(q) = result[1].kpi_result.kpi

\* C3, amended: the returned kpi is the f64 sum of the deltas added from left
\* to right to 0.0, change equals kpi, and file_type is the classification of
\* the last document ("Unknown" for no document).  Every ordering of a batch
\* of at most 2 documents gives the same kpi; [journal +50000, payroll -20000]
\* gives 30000 and "PayrollExpense", reversed 30000 and "JournalEntry".
C3_LeftToRightSum ==
    Returned =>
      /\ result[1].kpi_result.kpi = SumOfDeltas(Ids)
      /\ result[1].kpi_result.change = result[1].kpi_result.kpi
      /\ result[1].kpi_result.file_type = LastType(Ids)
      /\ Len(Ids) <= 2 => \A q \in Orderings(Ids) : SumOfDeltas(q) = result[1].kpi_result.kpi
      /\ Ids = <<1, 2>> =>
           /\ result[1].kpi_result.kpi = FromNat(30000)
           /\ result[1].kpi_result.file_type = "PayrollExpense"
      /\ Ids = <<2, 1>> =>
           /\ result[1].kpi_result.kpi = FromNat(30000)
           /\ result[1].kpi_result.file_type = "JournalEntry"

C3_Witness ==
    /\ Returned
    /\ Ids = <<2, 1>>
    /\ result[1].kpi_result.kpi = FromNat(30000)
    /\ result[1].kpi_result.change = FromNat(30000)
    /\ result[1].kpi_result.file_type = "JournalEntry"

\* round(kpi * 1000) of the returned kpi, as f64
RoundedMillis == FRound(FMul(result[1].kpi_result.kpi, F1000))

\* C5 as stated: for every batch the attested kpi_value equals
\* round(kpi * 1000) of the kpi reported in kpi_result.
C5_QuantizeExact ==
    Returned => FEq(FromU64(result[1].attestation.kpi_value), RoundedMillis)

\* C5, amended: kpi_result.kpi is the cumulative kpi, and the attested
\* kpi_value equals round(kpi * 1000) when that value lies in 0 .. 2^64 - 1;
\* it is 0 when round(kpi * 1000) is negative or NaN and 2^64 - 1 when it is
\* larger (+infinity included).  kpi 30000.0 gives 30000000 and kpi
\* 1234.5675 gives 1234568.
C5_QuantizeSaturating ==
    Returned =>
      LET v == result[1].attestation.kpi_value
          r == RoundedMillis
      IN  /\ result[1].kpi_result.kpi = cumulative_kpi
          /\ v = kpi_value_u64
          /\ BCmp(v, U64Max) <= 0
          /\ IF IsNaN(r) THEN v = <<>>
             ELSE IF InU64Range(r) THEN FEq(FromU64(v), r)
             ELSE IF r.s = 1 THEN v = <<>>
             ELSE v = U64Max
          /\ result[1].kpi_result.kpi = FromNat(30000) => v = BigOf(30000000)
          /\ result[1].kpi_result.kpi = Dec(12345675, -4) => v = BigOf(1234568)

C5_Witness ==
    /\ Returned
    /\ Ids = <<3>>
    /\ result[1].kpi_result.kpi = Dec(12345675, -4)
    /\ result[1].attestation.kpi_value = BigOf(1234568)

\* C6 as stated: the call aborts if and only if the input fails to parse as
\* a batch, and then before anything else has happened; whenever the batch
\* parses, every document is processed and a complete result is returned.
C6_AbortsOnlyOnParse ==
    /\ pc = "aborted" => ~IsBatch /\ steps = {"parse"}
    /\ ~IsBatch => pc \in {"idle", "aborted"}

\* C6, amended: the call aborts if and only if the input fails to parse as a
\* batch or the clock reads a time before the Unix epoch.  The parse abort
\* comes before any classification, delta, hashing, clock read or signing.
\* The clock abort comes after every document was processed and the input
\* hashed, and before quantizing and signing.  Neither leaves a result.  In
\* every other case every document is processed, whatever its fields and
\* type (Unknown documents contribute 0), and a complete result is returned.
C6_AbortsOnParseOrClock ==
    /\ pc = "aborted" =>
         /\ result = <<>>
         /\ signature_bytes = <<>>
         /\ kpi_value_u64 = <<>>
         /\ \/ /\ abort = "Invalid documents JSON"
               /\ ~IsBatch
               /\ steps = {"parse"}
               /\ processed = 0
               /\ computation_hash = <<>>
            \/ /\ abort = "Time went backwards"
               /\ IsBatch
               /\ processed = Len(Ids)
               /\ {"parse", "hash", "clock"} \subseteq steps
               /\ steps \subseteq {"parse", "classify", "delta", "hash", "clock"}
    /\ ~IsBatch => pc \in {"idle", "aborted"}
    /\ "parse" \in steps /\ IsBatch /\ pc = "aborted" => "clock" \in steps
    /\ pc = "loop" => Len(documents) = Len(Ids) /\ processed <= Len(documents)
    /\ pc \in {"clock", "quantize", "sign", "attest"} => processed = Len(Ids)
    /\ Returned =>
         /\ IsBatch
         /\ processed = Len(Ids)
         /\ steps = (IF Ids = <<>> THEN {} ELSE {"classify", "delta"})
                      \cup {"parse", "hash", "clock", "quantize", "sign", "encode"}
         /\ Len(result[1].attestation_bytes) = 144
         /\ (\A i \in 1..Len(Ids) : identify_file_type(DocOf(Ids[i])) = "Unknown")
               => result[1].kpi_result.kpi = F0

C6_Witness ==
    /\ pc = "aborted"
    /\ abort = "Time went backwards"
    /\ Ids = <<4, 1, 5>>
    /\ processed = 3
    /\ computation_hash # <<>>
    /\ result = <<>>

\* C9: feeding the documents of a batch one at a time to calculate_kpi,
\* from running total 0 and passing each returned kpi to the next call, ends
\* with the kpi calculate_kpi_with_attestation returns for the batch, and for
\* a non-empty batch the last call's file_type is the batch's file_type;
\* after each prefix the running total is the sum of the deltas of that
\* prefix.  The empty batch gives kpi 0, change 0 and file_type "Unknown".
C9_EntryPointsAgree ==
    IsBatch =>
      /\ ~SinglePanicked
      /\ pc = "idle" =>
           /\ current_kpi = SumOfDeltas(SubSeq(Ids, 1, fed))
           /\ fed > 0 =>
                /\ single[1].kpi = current_kpi
                /\ single[1].change = DeltaOf(Ids[fed])
                /\ single[1].file_type = identify_file_type(DocOf(Ids[fed]))
      /\ Returned =>
           /\ fed = Len(Ids)
           /\ result[1].kpi_result.kpi = current_kpi
           /\ Ids # <<>> => result[1].kpi_result.file_type = single[1].file_type
           /\ Ids = <<>> =>
                /\ result[1].kpi_result.kpi = F0
                /\ result[1].kpi_result.change = F0
                /\ result[1].kpi_result.file_type = "Unknown"

C9_Witness ==
    /\ Returned
    /\ Ids = <<3, 1, 2>>
    /\ fed = 3
    /\ single[1].file_type = "PayrollExpense"
    /\ result[1].kpi_result.file_type = "PayrollExpense"
    /\ result[1].kpi_result.kpi = current_kpi
    /\ current_kpi # Dec(312345675, -4)

\* C10 as stated: a negative cumulative kpi neither fails nor wraps, the
\* attested kpi_value is 0 and kpi_result.kpi keeps the negative value; every
\* batch with kpi <= 0 is attested with kpi_value 0; and kpi_value equals
\* round(kpi * 1000) only for kpi >= 0.
C10_ExactOnlyFromZero ==
    /\ "quantize" \in steps => pc # "aborted"
    /\ Returned /\ FNonPositive(result[1].kpi_result.kpi) =>
         result[1].attestation.kpi_value = <<>>
    /\ Returned /\ FEq(FromU64(result[1].attestation.kpi_value), RoundedMillis) =>
         FNonNegative(result[1].kpi_result.kpi)

\* C10, amended: a negative cumulative kpi neither fails nor wraps, the
\* attested kpi_value is 0 and kpi_result.kpi keeps the negative value; every
\* batch with kpi <= 0 is attested with kpi_value 0; and kpi_value equals
\* round(kpi * 1000) only when round(kpi * 1000) is not negative, which
\* besides kpi >= 0 holds of a negative kpi above -0.0005 (-0.0001 gives
\* round(-0.1) = 0 = kpi_value).
C10_NegativeSaturatesToZero ==
    /\ "quantize" \in steps => pc # "aborted"
    /\ pc \in {"sign", "attest", "done"} /\ FNonPositive(cumulative_kpi) =>
         kpi_value_u64 = <<>>
    /\ Returned /\ FNonPositive(result[1].kpi_result.kpi) =>
         result[1].attestation.kpi_value = <<>>
    /\ Returned /\ FNegative(cumulative_kpi) => FNegative(result[1].kpi_result.kpi)
    /\ Returned /\ FEq(FromU64(result[1].attestation.kpi_value), RoundedMillis) =>
         FNonNegative(RoundedMillis)
    /\ Returned /\ Ids = <<7>> =>
         /\ FNegative(result[1].kpi_result.kpi)
         /\ FEq(FromU64(result[1].attestation.kpi_value), RoundedMillis)

C10_Witness ==
    /\ Returned
    /\ Ids = <<2>>
    /\ result[1].kpi_result.kpi = FNeg(FromNat(20000))
    /\ result[1].attestation.kpi_value = <<>>

(***************************************************************************)
(* Properties of calculate_kpi on one document (SpecDoc).                  *)
(***************************************************************************)
\* the one call of calculate_kpi has returned for a document that parses
Calculated == fed = 1 /\ documents_json.kind = "value" /\ ~SinglePanicked
Doc == DocOf(documents_json.ids[1])

HasKey(v, key) == v.t = "obj" /\ key \in DOMAIN v.f

\* assetList is an array, not empty, whose first element has the key assetID
AssetListMatches(v) ==
    /\ HasKey(v, "assetList")
    /\ v.f["assetList"].t = "arr"
    /\ v.f["assetList"].a # <<>>
    /\ HasKey(v.f["assetList"].a[1], "assetID")

\* C4: identify_file_type never fails and checks in a fixed order, the first
\* match deciding: journalEntryId present gives JournalEntry; else a
\* non-empty assetList array whose first element has assetID gives
\* FixedAssetsRegister; else employeeDetails present gives PayrollExpense;
\* else reportTitle equal to the string "Corporate Overhead Report" gives
\* OverheadReport; else Unknown.  A document with journalEntryId and
\* employeeDetails is a JournalEntry, and an assetList that does not match
\* lets the later checks decide.
C4_Precedence ==
    /\ fed = 1 /\ documents_json.kind = "value" => ~SinglePanicked
    /\ Calculated =>
         /\ single[1].file_type =
              (IF HasKey(Doc, "journalEntryId") THEN "JournalEntry"
               ELSE IF AssetListMatches(Doc) THEN "FixedAssetsRegister"
               ELSE IF HasKey(Doc, "employeeDetails") THEN "PayrollExpense"
               ELSE IF HasKey(Doc, "reportTitle")
                       /\ Doc.f["reportTitle"] = JStr("Corporate Overhead Report")
                    THEN "OverheadReport"
               ELSE "Unknown")
         /\ HasKey(Doc, "journalEntryId") /\ HasKey(Doc, "employeeDetails")
              => single[1].file_type = "JournalEntry"
         /\ HasKey(Doc, "assetList") /\ ~AssetListMatches(Doc)
              => single[1].file_type \in {"JournalEntry", "PayrollExpense", "OverheadReport", "Unknown"}

C4_Witness ==
    /\ Calculated
    /\ HasKey(Doc, "journalEntryId")
    /\ AssetListMatches(Doc)
    /\ HasKey(Doc, "employeeDetails")
    /\ HasKey(Doc, "reportTitle")
    /\ single[1].file_type = "JournalEntry"

\* C7: for every FixedAssetsRegister document process_fixed_assets never
\* divides by zero: for each element of assetList the divisor
\* usefulLife_years * 12 is not zero, and is 12 when usefulLife_years is
\* omitted or not a number; so the delta, the negated sum of
\* (originalCost - residualValue) / (usefulLife_years * 12), is a finite
\* number.
C7_DivisorNeverZero ==
    Calculated /\ single[1].file_type = "FixedAssetsRegister" =>
      /\ \A i \in 1..Len(Doc.f["assetList"].a) :
           LET asset == Doc.f["assetList"].a[i]
           IN  /\ ~IsZero(asset_divisor(asset))
               /\ Get(asset, "usefulLife_years").t # "num" => asset_divisor(asset) = F12
      /\ IsFinite(single[1].change)

\* the index of the first credit whose account is the string "Sales Revenue",
\* or 0
FirstSales(credits) ==
    LET matches == {i \in 1..Len(credits) :
                       /\ HasKey(credits[i], "account")
                       /\ credits[i].f["account"] = JStr("Sales Revenue")}
    IN  IF matches = {} THEN 0 ELSE CHOOSE i \in matches : \A j \in matches : i <= j

\* the amount of credit k of an array of credits (k = 0: no such credit)
AmountAt(credits, k) ==
    IF k = 0 THEN F0
    ELSE IF HasKey(credits[k], "amount") /\ credits[k].f["amount"].t = "num"
         THEN NumF64(credits[k].f["amount"])
    ELSE F0

\* C8: the delta of a JournalEntry document is decided by the first element
\* of credits whose account is exactly "Sales Revenue" alone: it is that
\* element's amount, or 0 when the amount is missing or not a number (later
\* matching credits are not consulted); it is 0 when no credit matches or
\* credits is absent or not an array.
C8_FirstSalesCredit ==
    Calculated /\ single[1].file_type = "JournalEntry" =>
      /\ single[1].change =
           (IF HasKey(Doc, "credits") /\ Doc.f["credits"].t = "arr"
            THEN AmountAt(Doc.f["credits"].a, FirstSales(Doc.f["credits"].a))
            ELSE F0)

C8_Witness ==
    /\ Calculated
    /\ single[1].file_type = "JournalEntry"
    /\ HasKey(Doc, "credits")
    /\ Doc.f["credits"].t = "arr"
    /\ Len(Doc.f["credits"].a) = 2
    /\ HasKey(Doc.f["credits"].a[1], "amount")
    /\ FirstSales(Doc.f["credits"].a) = 1
    /\ Doc.f["credits"].a[1].f["amount"] = JStr("50000")
    /\ Doc.f["credits"].a[2].f["amount"] = JNum(7, 0)
    /\ single[1].change = F0
====
